---- MODULE Spec2Model ----
(***************************************************************************)
(* Model of custom_components/solis/service.py: the ServiceSubscriber      *)
(* de-duplication contract and the InverterService polling engine          *)
(* (session management, update cycle, dispatch with the energy-today       *)
(* correction, discovery with retry).                                      *)
(*                                                                         *)
(* Time is counted in minutes since local midnight of day 0.  The clock    *)
(* only moves forward, over the instants of Instants.  Every coroutine is  *)
(* cut at its await points: one action is one run of the code between two  *)
(* suspension points, as asyncio executes it on its single thread.         *)
(***************************************************************************)
EXTENDS Integers, Sequences, FiniteSets, TLC

\* ---------------------------------------------------------------- constants

SCHEDULE_OK == 2
SCHEDULE_NOK == 1
\* timedelta(hours=2), in minutes
HRS_BETWEEN_LOGIN == 2 * 60
RETRY_DELAY_SECONDS == 60
INVERTER_STATE == "state"
INVERTER_ENERGY_TODAY == "energy_today"
\* an attribute that is neither the state nor energy-today
OTHER_ATTRIBUTE == "power"

\* Python's None, for the optional datetimes
None == -1

\* ------------------------------------------------------------------- bounds

\* longest device list the API reports; the serials are 1..MaxDevices
MaxDevices == 2
\* update invocations that may be in flight at once
MaxInFlight == 2
\* notify calls kept in the subscriber trace
MaxLog == 3

\* the instants the clock visits (minutes since midnight of day 0) while the
\* engine is followed: 00:03 02:04 02:10
EngineInstants == {3, 124, 130}
\* and while a dispatch is followed: 00:03 00:05 00:20 00:22 00:30 12:05, 00:04 of day 1
DispatchInstants == {3, 5, 20, 22, 30, 725, 1444}

Serials == 1..MaxDevices
Attrs == {INVERTER_STATE, INVERTER_ENERGY_TODAY, OTHER_ATTRIBUTE}
SubIds == {"s1", "s2", "s3"}
\* device state codes: 1 starting up, 2 standby/off, 3 running
StateCodes == {1, 2, 3}
\* the raw value a snapshot holds for an attribute other than the state
RawValue(a) == IF a = INVERTER_ENERGY_TODAY THEN 7 ELSE 40

VARIABLES
    now,            \* wall clock (datetime.now(), dt_util.utcnow())
    online,         \* self._api.is_online
    api_inverters,  \* self._api.inverters
    logintime,      \* self._logintime
    last_updated,   \* self._last_updated
    subscriptions,  \* self._subscriptions: serial -> attribute -> subscriber
    measured,       \* subscriber -> its _measured
    discovery,      \* self._discovery_callback / self._discovery_cookie
    utimers,        \* pending async_track_point_in_utc_time(async_update)
    dtimers,        \* pending async_track_point_in_utc_time(async_discover)
    cyc,            \* the async_update invocations in flight
    dsc,            \* the async_discover invocation in flight
    host,           \* what the host has armed so far
    disp,           \* observation: the most recent update_devices call
    returned,       \* observation: the async_update that returned in the step just taken
    lastlogin,      \* observation: instant of the api.login that opened the session, if any
    called,         \* observation: the discovery callback invocation of the step just taken
    discovered,     \* observation: the async_discover that finished in the step just taken
    subscribed,     \* observation: the subscribe call of the step just taken
    trace           \* observation: notify calls made on a bare subscriber

vars == <<now, online, api_inverters, logintime, last_updated, subscriptions,
          measured, discovery, utimers, dtimers, cyc, dsc, host, disp,
          returned, lastlogin, called, discovered,
          subscribed, trace>>

\* ------------------------------------------------------------- wall clock

\* datetime.hour and datetime.minute of an instant
Hour(t) == (t % 1440) \div 60
Minute(t) == t % 60

\* ------------------------------------------------- ServiceSubscriber

\* mutant of Invokes: an unset measured always lets the value through
Invokes_unset(m, ts) == m = None \/ m # ts

\* whether data_updated hands the value to do_update
Invokes(m, ts) == m # ts

\* mutant of data_updated: the applied timestamp is never recorded
data_updated_forgets(m, ts, ret) == m

\* mutant of data_updated: the timestamp is recorded whatever do_update returns
data_updated_commits(m, ts, ret) == IF Invokes(m, ts) THEN ts ELSE m

\* _measured after data_updated(value, ts) when do_update would return ret
data_updated(m, ts, ret) ==
    IF Invokes(m, ts)
    THEN IF ret THEN ts ELSE m
    ELSE m

\* ------------------------------------------------- InverterService.subscribe

\* the subscriber registered for attribute a of device d, "none" when there is none
Registered(reg, d, a) ==
    IF d \in DOMAIN reg
    THEN IF a \in DOMAIN reg[d] THEN reg[d][a] ELSE "none"
    ELSE "none"

\* mutant of subscribe: a pair that has a subscriber keeps it
subscribe_keeps(reg, subscriber, serial, attribute) ==
    LET r1 == IF serial \notin DOMAIN reg THEN (serial :> <<>>) @@ reg ELSE reg
    IN  [r1 EXCEPT ![serial] = @ @@ (attribute :> subscriber)]

\* self._subscriptions after subscribe(subscriber, serial, attribute)
subscribe(reg, subscriber, serial, attribute) ==
    LET r1 == IF serial \notin DOMAIN reg THEN (serial :> <<>>) @@ reg ELSE reg
    IN  [r1 EXCEPT ![serial] = (attribute :> subscriber) @@ @]

\* no subscribe call made by the step just taken
NoSubscribe == [sub |-> "none", serial |-> 0, attr |-> "none", prev |-> "none"]

\* ------------------------------------------------- InverterService.update_devices

\* a snapshot GinlongData: its serial, data.keys() in iteration order, its state code
Snapshot(serial, keys, state) == [serial |-> serial, keys |-> keys, state |-> state]

\* getattr(data, attribute)
Value(data, a) == IF a = INVERTER_STATE THEN data.state ELSE RawValue(a)

\* the orders in which data.keys() may list the attributes
KeyOrders ==
    { <<INVERTER_STATE, INVERTER_ENERGY_TODAY, OTHER_ATTRIBUTE>>,
      <<INVERTER_ENERGY_TODAY, OTHER_ATTRIBUTE, INVERTER_STATE>>,
      <<OTHER_ATTRIBUTE, INVERTER_STATE>> }

\* the snapshots the engine is followed with
EngineKeyOrders ==
    { <<INVERTER_STATE, INVERTER_ENERGY_TODAY, OTHER_ATTRIBUTE>>,
      <<OTHER_ATTRIBUTE, INVERTER_STATE>> }
EngineStateCodes == {1, 3}

\* no notify call made for any attribute
NoneSent == [a \in Attrs |-> <<>>]

\* no update_devices call made by the step just taken
NoDispatch == [serial |-> 0, keys |-> <<>>, state |-> 0, at |-> None,
               sent |-> NoneSent, applied |-> {}]

\* mutant of StateMeasured: the measured the state subscriber had when the
\* dispatch began
StateMeasured_before(sub, m) ==
    IF INVERTER_STATE \in DOMAIN sub THEN measured[sub[INVERTER_STATE]] ELSE None

\* self._subscriptions[serial][INVERTER_STATE].measured, None on KeyError
StateMeasured(sub, m) ==
    IF INVERTER_STATE \in DOMAIN sub THEN m[sub[INVERTER_STATE]] ELSE None

\* mutant of EnergyToday: the grace window is tested before the midnight reset
EnergyToday_grace_first(data, last_updated_state, nowt) ==
    LET is_am == Hour(nowt) < 12
        raw == Value(data, INVERTER_ENERGY_TODAY)
    IN  IF data.state = 2 /\ is_am
        THEN [skip |-> FALSE, value |-> 0]
        ELSE IF data.state = 1 /\ is_am /\ last_updated_state # None
        THEN IF last_updated_state + 5 > nowt
             THEN [skip |-> TRUE, value |-> raw]
             ELSE IF Hour(last_updated_state) = 0 /\ Minute(last_updated_state) < 15
             THEN [skip |-> FALSE, value |-> 0]
             ELSE [skip |-> FALSE, value |-> raw]
        ELSE [skip |-> FALSE, value |-> raw]

\* mutant of EnergyToday: 'standby/off' forces 0 at any time of day
EnergyToday_any_hour(data, last_updated_state, nowt) ==
    LET is_am == Hour(nowt) < 12
        raw == Value(data, INVERTER_ENERGY_TODAY)
    IN  IF data.state = 2
        THEN [skip |-> FALSE, value |-> 0]
        ELSE IF data.state = 1 /\ is_am /\ last_updated_state # None
        THEN IF Hour(last_updated_state) = 0 /\ Minute(last_updated_state) < 15
             THEN [skip |-> FALSE, value |-> 0]
             ELSE IF last_updated_state + 5 > nowt
             THEN [skip |-> TRUE, value |-> raw]
             ELSE [skip |-> FALSE, value |-> raw]
        ELSE [skip |-> FALSE, value |-> raw]

\* the energy-today branch: whether the notify is skipped, else the value sent
EnergyToday(data, last_updated_state, nowt) ==
    LET is_am == Hour(nowt) < 12
        raw == Value(data, INVERTER_ENERGY_TODAY)
    IN  IF data.state = 2 /\ is_am
        THEN [skip |-> FALSE, value |-> 0]
        ELSE IF data.state = 1 /\ is_am
        THEN IF last_updated_state # None
             THEN IF Hour(last_updated_state) = 0 /\ Minute(last_updated_state) < 15
                  THEN [skip |-> FALSE, value |-> 0]
                  ELSE IF last_updated_state + 5 > nowt
                  THEN [skip |-> TRUE, value |-> raw]
                  ELSE [skip |-> FALSE, value |-> raw]
             ELSE [skip |-> FALSE, value |-> raw]
        ELSE [skip |-> FALSE, value |-> raw]

\* what one attribute of the loop does: skip, or notify this value
Decide(a, data, sub, m, nowt) ==
    IF a = INVERTER_ENERGY_TODAY
    THEN EnergyToday(data, StateMeasured(sub, m), nowt)
    ELSE [skip |-> FALSE, value |-> Value(data, a)]

\* the timestamp a notify call carries: the property self.last_updated
NotifyStamp(lu) == lu

\* the for loop over data.keys(); st = [m: measured so far, sent: the notify calls
\* so far, applied: the attributes whose do_update was invoked and returned true];
\* rets[a] is what do_update of the subscriber of a returns when invoked
RECURSIVE Walk(_, _, _, _, _, _, _)
Walk(keys, data, sub, lu, nowt, rets, st) ==
    IF keys = <<>> THEN st
    ELSE LET a == Head(keys)
             d == Decide(a, data, sub, st.m, nowt)
         IN  IF a \notin DOMAIN sub \/ d.skip
             THEN Walk(Tail(keys), data, sub, lu, nowt, rets, st)
             ELSE Walk(Tail(keys), data, sub, lu, nowt, rets,
                       [m |-> [st.m EXCEPT ![sub[a]] =
                                   data_updated(@, NotifyStamp(lu), rets[a])],
                        sent |-> [st.sent EXCEPT ![a] = <<d.value, NotifyStamp(lu)>>],
                        applied |-> IF Invokes(st.m[sub[a]], NotifyStamp(lu)) /\ rets[a]
                                    THEN st.applied \cup {a} ELSE st.applied])

\* mutant of update_devices: a snapshot of an unregistered device is handed to
\* the subscribers of a registered one
update_devices_any(data, m, lu, nowt, rets) ==
    IF subscriptions = <<>>
    THEN [m |-> m, sent |-> NoneSent, applied |-> {}]
    ELSE LET serial == IF data.serial \in DOMAIN subscriptions THEN data.serial
                       ELSE CHOOSE d \in DOMAIN subscriptions : TRUE
         IN  Walk(data.keys, data, subscriptions[serial], lu, nowt,
                  [a \in Attrs |-> TRUE],
                  [m |-> m, sent |-> NoneSent, applied |-> {}])

\* update_devices(data) with self.last_updated = lu at wall-clock instant nowt
update_devices(data, m, lu, nowt, rets) ==
    IF data.serial \notin DOMAIN subscriptions
    THEN [m |-> m, sent |-> NoneSent, applied |-> {}]
    ELSE Walk(data.keys, data, subscriptions[data.serial], lu, nowt, rets,
              [m |-> m, sent |-> NoneSent, applied |-> {}])

\* what the do_update methods may return in a dispatch of (serial, keys): only
\* the subscribers of the snapshot's subscribed attributes can be invoked
RetChoices(serial, keys) ==
    {rets \in [Attrs -> BOOLEAN] :
        \A a \in Attrs : rets[a] =>
            /\ \E j \in 1..Len(keys) : keys[j] = a
            /\ serial \in DOMAIN subscriptions
            /\ a \in DOMAIN subscriptions[serial]}

\* the timestamps the notify calls of a dispatch carried
Stamps(sent) == {sent[a][2] : a \in {x \in Attrs : sent[x] # <<>>}}

\* ------------------------------------------------- remote API capability

\* self._api.inverters is None
InvNone == <<None>>
\* the device lists the API may report after a login
InverterLists == {[k \in 1..n |-> k] : n \in 0..MaxDevices} \cup {InvNone}

\* is_online once api.login has returned ok, and once api.logout has returned
OnlineAfterLogin(ok) == ok
OnlineAfterLogout == FALSE
\* is_online once api.logout has raised: the session may or may not have been dropped
OnlineAfterLogoutRaised(dropped) == online /\ ~dropped

\* ------------------------------------------------- host scheduler

\* async_track_point_in_utc_time(hass, action, utcnow() + delay): the timer added
Track(timers, delay) == Append(timers, [due |-> now + delay])

\* mutant of Fired: a timer that fired stays registered
Fired_kept(timers, k) == timers

\* the timers with timer k taken out (it fired)
Fired(timers, k) == [j \in 1..(Len(timers) - 1) |-> IF j < k THEN timers[j] ELSE timers[j + 1]]

\* mutant of schedule_update: the default of one minute is used, not the argument
schedule_update_default(timers, minute) == Track(timers, 1)

\* schedule_update(minute): the update timers afterwards
schedule_update(timers, minute) == Track(timers, minute)

\* mutant of schedule_discovery: the default of one second is used, not the argument
schedule_discovery_default(timers, seconds) == Track(timers, 1 \div 60)

\* schedule_discovery(callback, cookie, seconds): the discovery timers afterwards
schedule_discovery(timers, seconds) == Track(timers, seconds \div 60)

\* truthiness of a callback or cookie: None and the empty dict are false
Truthy(x) == x \notin {"none", "empty"}

\* no async_discover finished; and the one that finished with result caps, as
\* observed: how many timers it registered and how far ahead the last one is due
NotDiscovered == [done |-> FALSE, caps |-> {}, nsched |-> 0, delay |-> 0]
Discovered(caps, before, after) ==
    [done |-> TRUE, caps |-> caps, nsched |-> Len(after) - Len(before),
     delay |-> IF Len(after) > Len(before) THEN after[Len(after)].due - now ELSE 0]

\* ------------------------------------------------- InverterService.async_update

\* an invocation: where it is suspended (pc), its locals (update, the list inv it
\* iterates and the index idx of the device being fetched) and, as observations,
\* how many times it called schedule_update (nsched), the delay of the timer it
\* registered (delay), whether a fetch of it failed, the timestamps its notify
\* calls carried
IdleCyc == [pc |-> "idle", idx |-> 0, update |-> 0, inv |-> <<>>,
            nsched |-> 0, delay |-> 0, failed |-> FALSE, stamps |-> {}]
NotReturned == [done |-> FALSE, update |-> 0, nsched |-> 0, delay |-> 0,
                failed |-> FALSE, stamps |-> {}, renewed |-> FALSE]

\* 'return update' of invocation record c
Return(c, renewed) == [done |-> TRUE, update |-> c.update, nsched |-> c.nsched,
                       delay |-> c.delay, failed |-> c.failed, stamps |-> c.stamps,
                       renewed |-> renewed]

\* mutant of Captured: the timestamp is captured once and kept
Captured_once(prev) == IF prev = None THEN now ELSE prev

\* line 174: self._last_updated once a fetch has returned data
Captured(prev) == now

\* whether the renewal test at the end of the cycle asks for a logout
TimeToLogin(lt) == lt # None /\ lt + HRS_BETWEEN_LOGIN < now

\* the status a failed fetch leaves, and the one a successful fetch leaves,
\* given the status so far
FetchFailed(update) == SCHEDULE_NOK
FetchSucceeded(update) == SCHEDULE_OK

\* lines 181-188: schedule_update(update), the renewal test, return
UpdFinish(i, c, lt, timers) ==
    /\ utimers' = schedule_update(timers, c.update)
    /\ LET c2 == [c EXCEPT !.nsched = @ + 1,
                           !.delay = utimers'[Len(utimers')].due - now]
       IN  IF TimeToLogin(lt)
           THEN /\ cyc' = [cyc EXCEPT ![i] = [c2 EXCEPT !.pc = "logout_renew"]]
                /\ returned' = NotReturned
           ELSE /\ cyc' = [cyc EXCEPT ![i] = IdleCyc]
                /\ returned' = Return(c2, FALSE)

\* the for loop's head: suspend in the fetch of device c.idx, or leave the loop
UpdLoop(i, c, lt, timers) ==
    IF c.idx <= Len(c.inv)
    THEN /\ cyc' = [cyc EXCEPT ![i] = [c EXCEPT !.pc = "fetch"]]
         /\ utimers' = timers
         /\ returned' = NotReturned
    ELSE UpdFinish(i, c, lt, timers)

\* lines 165-169 once _login() has returned isonline
UpdEnter(i, c, isonline, invs, lt, timers) ==
    IF isonline
    THEN IF invs = InvNone
         THEN /\ cyc' = [cyc EXCEPT ![i] = IdleCyc]
              /\ returned' = Return(c, FALSE)
              /\ utimers' = timers
         ELSE UpdLoop(i, [c EXCEPT !.inv = invs, !.idx = 1], lt, timers)
    ELSE UpdFinish(i, c, lt, timers)

\* the lowest free invocation slot
FreeSlot(i) == cyc[i].pc = "idle" /\ \A j \in 1..(i - 1) : cyc[j].pc # "idle"

\* a due timer invokes async_update: update = SCHEDULE_NOK, then _login()
UpdStart(i, k) ==
    /\ FreeSlot(i)
    /\ k \in 1..Len(utimers)
    /\ utimers[k].due <= now
    /\ LET c == [IdleCyc EXCEPT !.update = SCHEDULE_NOK]
       IN  IF online
           THEN UpdEnter(i, c, TRUE, api_inverters, logintime, Fired(utimers, k))
           ELSE /\ cyc' = [cyc EXCEPT ![i] = [c EXCEPT !.pc = "login"]]
                /\ utimers' = Fired(utimers, k)
                /\ returned' = NotReturned
    /\ UNCHANGED <<now, online, api_inverters, logintime, last_updated, subscriptions,
                   measured, discovery, dtimers, dsc, host, lastlogin, trace>>
    /\ called' = <<>>
    /\ discovered' = NotDiscovered
    /\ subscribed' = NoSubscribe
    /\ disp' = NoDispatch

\* self._logintime after api.login returned ok inside _login()
LoginStamp(ok, lt) == IF ok THEN now ELSE lt

\* api.login returns ok to the _login() of async_update
UpdLoginRet(i, ok, invs) ==
    /\ cyc[i].pc = "login"
    /\ ok \/ invs = InvNone
    /\ online' = OnlineAfterLogin(ok)
    /\ api_inverters' = IF ok THEN invs ELSE api_inverters
    /\ lastlogin' = IF ok THEN now ELSE lastlogin
    /\ logintime' = LoginStamp(ok, logintime)
    /\ UpdEnter(i, cyc[i], online', api_inverters', logintime', utimers)
    /\ UNCHANGED <<now, last_updated, subscriptions, measured, discovery, dtimers, dsc,
                   host, trace>>
    /\ called' = <<>>
    /\ discovered' = NotDiscovered
    /\ subscribed' = NoSubscribe
    /\ disp' = NoDispatch

\* fetch_inverter_data returns a snapshot: lines 171-175, then the loop goes on
UpdFetchOk(i, keys, state, rets) ==
    /\ cyc[i].pc = "fetch"
    /\ last_updated' = Captured(last_updated)
    /\ LET c == cyc[i]
           data == Snapshot(c.inv[c.idx], keys, state)
       IN  \E r \in {update_devices(data, measured, last_updated', now, rets)} :
           /\ \A a \in Attrs : rets[a] => a \in r.applied
           /\ measured' = r.m
           /\ disp' = [serial |-> data.serial, keys |-> keys, state |-> state,
                       at |-> now, sent |-> r.sent, applied |-> r.applied]
           /\ UpdLoop(i, [c EXCEPT !.update = FetchSucceeded(c.update), !.idx = @ + 1,
                                   !.stamps = @ \cup Stamps(r.sent)],
                      logintime, utimers)
    /\ UNCHANGED <<now, online, api_inverters, logintime, subscriptions, discovery,
                   dtimers, dsc, host, lastlogin, trace>>
    /\ called' = <<>>
    /\ discovered' = NotDiscovered
    /\ subscribed' = NoSubscribe

\* fetch_inverter_data returns None: lines 177-179, suspended in _logout()
UpdFetchNone(i) ==
    /\ cyc[i].pc = "fetch"
    /\ cyc' = [cyc EXCEPT ![i] = [@ EXCEPT !.update = FetchFailed(@), !.failed = TRUE,
                                           !.pc = "logout_fetch"]]
    /\ UNCHANGED <<now, online, api_inverters, logintime, last_updated, subscriptions,
                   measured, discovery, utimers, dtimers, dsc, host, lastlogin, trace>>
    /\ called' = <<>>
    /\ discovered' = NotDiscovered
    /\ subscribed' = NoSubscribe
    /\ disp' = NoDispatch
    /\ returned' = NotReturned

\* api.logout returns to the _logout() of line 179; the loop goes on
UpdLogoutFetchRet(i) ==
    /\ cyc[i].pc = "logout_fetch"
    /\ online' = OnlineAfterLogout
    /\ logintime' = None
    /\ lastlogin' = None
    /\ UpdLoop(i, [cyc[i] EXCEPT !.idx = @ + 1], logintime', utimers)
    /\ UNCHANGED <<now, api_inverters, last_updated, subscriptions, measured,
                   discovery, dtimers, dsc, host, trace>>
    /\ called' = <<>>
    /\ discovered' = NotDiscovered
    /\ subscribed' = NoSubscribe
    /\ disp' = NoDispatch

\* api.logout returns to the _logout() of line 186; return update
UpdLogoutRenewRet(i) ==
    /\ cyc[i].pc = "logout_renew"
    /\ online' = OnlineAfterLogout
    /\ logintime' = None
    /\ lastlogin' = None
    /\ cyc' = [cyc EXCEPT ![i] = IdleCyc]
    /\ returned' = Return(cyc[i], TRUE)
    /\ UNCHANGED <<now, api_inverters, last_updated, subscriptions, measured,
                   discovery, utimers, dtimers, dsc, host, trace>>
    /\ called' = <<>>
    /\ discovered' = NotDiscovered
    /\ subscribed' = NoSubscribe
    /\ disp' = NoDispatch

\* api.logout raises inside _logout(), at line 179 or at line 186: line 93 is not
\* reached, and the exception leaves async_update, which ends without returning
UpdLogoutRaise(i, dropped) ==
    /\ cyc[i].pc \in {"logout_fetch", "logout_renew"}
    /\ online' = OnlineAfterLogoutRaised(dropped)
    /\ lastlogin' = IF online' THEN lastlogin ELSE None
    /\ cyc' = [cyc EXCEPT ![i] = IdleCyc]
    /\ returned' = NotReturned
    /\ UNCHANGED <<now, api_inverters, logintime, last_updated, subscriptions, measured,
                   discovery, utimers, dtimers, dsc, host, trace>>
    /\ called' = <<>>
    /\ discovered' = NotDiscovered
    /\ subscribed' = NoSubscribe
    /\ disp' = NoDispatch

\* ------------------------------------------------- InverterService.async_discover

IdleDsc == [pc |-> "idle", idx |-> 0, inv |-> <<>>, caps |-> {}]

\* line 110: self._logintime once _login() has returned true in _do_discover
DiscoverStamp(lt) == now

\* lines 99-104: callback on a non-empty result, else schedule the retry
DscFinish(caps, timers) ==
    /\ dsc' = IdleDsc
    /\ IF caps # {}
       THEN /\ called' = IF Truthy(discovery.callback) /\ Truthy(discovery.cookie)
                         THEN <<[caps |-> caps, cookie |-> discovery.cookie]>>
                         ELSE <<>>
            /\ dtimers' = timers
       ELSE /\ called' = <<>>
            /\ dtimers' = schedule_discovery(timers, RETRY_DELAY_SECONDS)
    /\ discovery' = discovery
    /\ discovered' = Discovered(caps, timers, dtimers')
    /\ subscribed' = NoSubscribe

\* the for loop's head of _do_discover
DscLoop(d, timers) ==
    IF d.idx <= Len(d.inv)
    THEN /\ dsc' = [d EXCEPT !.pc = "fetch"]
         /\ dtimers' = timers
         /\ called' = <<>>
         /\ discovery' = discovery
         /\ discovered' = NotDiscovered
         /\ subscribed' = NoSubscribe
    ELSE DscFinish(d.caps, timers)

\* lines 109-114 once _login() has returned isonline; lt is self._logintime then
DscEnter(d, isonline, invs, lt, timers) ==
    IF isonline
    THEN /\ logintime' = DiscoverStamp(lt)
         /\ IF invs = InvNone
            THEN DscFinish({}, timers)
            ELSE DscLoop([d EXCEPT !.inv = invs, !.idx = 1], timers)
    ELSE /\ logintime' = lt
         /\ DscFinish({}, timers)

\* a due timer invokes async_discover: _do_discover, then _login()
DscStart(k) ==
    /\ dsc.pc = "idle"
    /\ k \in 1..Len(dtimers)
    /\ dtimers[k].due <= now
    /\ IF online
       THEN DscEnter(IdleDsc, TRUE, api_inverters, logintime, Fired(dtimers, k))
       ELSE /\ dsc' = [IdleDsc EXCEPT !.pc = "login"]
            /\ dtimers' = Fired(dtimers, k)
            /\ called' = <<>>
            /\ discovered' = NotDiscovered
            /\ subscribed' = NoSubscribe
            /\ UNCHANGED <<logintime, discovery>>
    /\ UNCHANGED <<now, online, api_inverters, last_updated, subscriptions, measured,
                   utimers, cyc, host, lastlogin, trace>>
    /\ disp' = NoDispatch
    /\ returned' = NotReturned

\* api.login returns ok to the _login() of _do_discover
DscLoginRet(ok, invs) ==
    /\ dsc.pc = "login"
    /\ ok \/ invs = InvNone
    /\ online' = OnlineAfterLogin(ok)
    /\ api_inverters' = IF ok THEN invs ELSE api_inverters
    /\ lastlogin' = IF ok THEN now ELSE lastlogin
    /\ DscEnter(dsc, online', api_inverters', LoginStamp(ok, logintime), dtimers)
    /\ UNCHANGED <<now, last_updated, subscriptions, measured, utimers, cyc, host,
                   trace>>
    /\ disp' = NoDispatch
    /\ returned' = NotReturned

\* fetch_inverter_data returns to _do_discover: got tells whether data is not None
DscFetchRet(got) ==
    /\ dsc.pc = "fetch"
    /\ DscLoop([dsc EXCEPT !.caps = IF got THEN @ \cup {dsc.inv[dsc.idx]} ELSE @,
                           !.idx = @ + 1], dtimers)
    /\ UNCHANGED <<now, online, api_inverters, logintime, last_updated, subscriptions,
                   measured, utimers, cyc, host, lastlogin, trace>>
    /\ disp' = NoDispatch
    /\ returned' = NotReturned

\* ------------------------------------------------- the host

\* the host arms the first update: schedule_update() with its default minute
HostArmUpdate ==
    /\ ~host.update
    /\ host' = [host EXCEPT !.update = TRUE]
    /\ utimers' = schedule_update(utimers, 1)
    /\ UNCHANGED <<now, online, api_inverters, logintime, last_updated, subscriptions,
                   measured, discovery, dtimers, cyc, dsc, lastlogin, trace>>
    /\ called' = <<>>
    /\ discovered' = NotDiscovered
    /\ subscribed' = NoSubscribe
    /\ disp' = NoDispatch
    /\ returned' = NotReturned

\* the host asks for discovery: schedule_discovery(callback, cookie) with its default second
HostArmDiscovery(callback, cookie) ==
    /\ ~host.discovery
    /\ host' = [host EXCEPT !.discovery = TRUE]
    /\ discovery' = [callback |-> callback, cookie |-> cookie]
    /\ dtimers' = schedule_discovery(dtimers, 1)
    /\ UNCHANGED <<now, online, api_inverters, logintime, last_updated, subscriptions,
                   measured, utimers, cyc, dsc, lastlogin, trace>>
    /\ called' = <<>>
    /\ discovered' = NotDiscovered
    /\ subscribed' = NoSubscribe
    /\ disp' = NoDispatch
    /\ returned' = NotReturned

\* time passes
Tick(t) ==
    /\ t > now
    /\ now' = t
    /\ UNCHANGED <<online, api_inverters, logintime, last_updated, subscriptions,
                   measured, discovery, utimers, dtimers, cyc, dsc, host, lastlogin,
                   trace>>
    /\ called' = <<>>
    /\ discovered' = NotDiscovered
    /\ subscribed' = NoSubscribe
    /\ disp' = NoDispatch
    /\ returned' = NotReturned

\* ------------------------------------------------- specification of the service

\* the registries the host's sensors leave behind through subscribe(): one
\* device with two attributes, or two devices
EngineRegistries ==
    { 1 :> [state |-> "s1", power |-> "s2"],
      (1 :> [power |-> "s1"]) @@ (2 :> [power |-> "s2"]) }

InitService ==
    /\ now = 3
    /\ online = FALSE
    /\ api_inverters = InvNone
    /\ logintime = None
    /\ last_updated = None
    /\ measured = [s \in SubIds |-> None]
    /\ discovery = [callback |-> "none", cookie |-> "none"]
    /\ utimers = <<>>
    /\ dtimers = <<>>
    /\ cyc = [i \in 1..MaxInFlight |-> IdleCyc]
    /\ dsc = IdleDsc
    /\ host = [update |-> FALSE, discovery |-> FALSE]
    /\ disp = NoDispatch
    /\ returned = NotReturned
    /\ lastlogin = None
    /\ called = <<>>
    /\ discovered = NotDiscovered
    /\ subscribed = NoSubscribe
    /\ trace = <<>>

Init ==
    /\ InitService
    /\ subscriptions \in EngineRegistries

Next ==
    \/ HostArmUpdate
    \/ \E cb \in {"cb"}, ck \in {"ck", "empty"} : HostArmDiscovery(cb, ck)
    \/ \E t \in EngineInstants : Tick(t)
    \/ \E i \in 1..MaxInFlight, k \in 1..Len(utimers) : UpdStart(i, k)
    \/ \E i \in 1..MaxInFlight, ok \in BOOLEAN, invs \in InverterLists : UpdLoginRet(i, ok, invs)
    \/ \E i \in 1..MaxInFlight, keys \in EngineKeyOrders, st \in EngineStateCodes :
          /\ cyc[i].pc = "fetch"
          /\ \E rets \in RetChoices(cyc[i].inv[cyc[i].idx], keys) :
                 UpdFetchOk(i, keys, st, rets)
    \/ \E i \in 1..MaxInFlight : UpdFetchNone(i)
    \/ \E i \in 1..MaxInFlight : UpdLogoutFetchRet(i)
    \/ \E i \in 1..MaxInFlight : UpdLogoutRenewRet(i)
    \/ \E i \in 1..MaxInFlight, dropped \in BOOLEAN : UpdLogoutRaise(i, dropped)
    \/ \E k \in 1..Len(dtimers) : DscStart(k)
    \/ \E ok \in BOOLEAN, invs \in InverterLists : DscLoginRet(ok, invs)
    \/ \E got \in BOOLEAN : DscFetchRet(got)

Spec == Init /\ [][Next]_vars

\* ------------------------------------------------- specification of a dispatch

\* the registries a dispatch is followed with: none; state, energy-today and
\* another attribute of device 1; the same without a state subscriber; only
\* energy-today of device 2
DispatchRegistries ==
    { <<>>,
      1 :> [state |-> "s1", energy_today |-> "s2", power |-> "s3"],
      1 :> [energy_today |-> "s2", power |-> "s3"],
      2 :> [energy_today |-> "s2"] }

\* a fetch of the running cycle returned this snapshot: lines 171-175, the
\* session and the loop left aside
Dispatch(serial, keys, state, rets) ==
    /\ last_updated' = Captured(last_updated)
    /\ LET data == Snapshot(serial, keys, state)
       IN  \E r \in {update_devices(data, measured, last_updated', now, rets)} :
           /\ \A a \in Attrs : rets[a] => a \in r.applied
           /\ measured' = r.m
           /\ disp' = [serial |-> data.serial, keys |-> keys, state |-> state,
                       at |-> now, sent |-> r.sent, applied |-> r.applied]
    /\ UNCHANGED <<now, online, api_inverters, logintime, subscriptions, discovery,
                   utimers, dtimers, cyc, dsc, host, lastlogin, trace>>
    /\ called' = <<>>
    /\ discovered' = NotDiscovered
    /\ subscribed' = NoSubscribe
    /\ returned' = NotReturned

InitDispatch ==
    /\ InitService
    /\ subscriptions \in DispatchRegistries

NextDispatch ==
    \/ \E t \in DispatchInstants : Tick(t)
    \/ \E serial \in Serials, keys \in KeyOrders, st \in StateCodes :
          \E rets \in RetChoices(serial, keys) : Dispatch(serial, keys, st, rets)

SpecDispatch == InitDispatch /\ [][NextDispatch]_vars

\* ------------------------------------------------- specification of a subscriber

\* the subscribers and the timestamps a bare subscriber is notified with
TraceSubs == {"s1", "s2"}
TraceStamps == {None, 3, 5}

\* data_updated(value, ts) called on subscriber s, whose do_update returns ret
SubNotify(s, ts, ret) ==
    /\ Len(trace) < MaxLog
    /\ ret => Invokes(measured[s], ts)
    /\ measured' = [measured EXCEPT ![s] = data_updated(@, ts, ret)]
    /\ trace' = Append(trace, [sub |-> s, ts |-> ts,
                               invoked |-> Invokes(measured[s], ts), applied |-> ret])
    /\ UNCHANGED <<now, online, api_inverters, logintime, last_updated, subscriptions,
                   discovery, utimers, dtimers, cyc, dsc, host, disp, returned,
                   lastlogin, called, discovered, subscribed>>

InitSub ==
    /\ InitService
    /\ subscriptions = <<>>

NextSub == \E s \in TraceSubs, ts \in TraceStamps, ret \in BOOLEAN : SubNotify(s, ts, ret)

SpecSub == InitSub /\ [][NextSub]_vars

\* ------------------------------------------------- specification of the registry

\* a sensor calls subscribe(subscriber, serial, attribute)
Subscribe(subscriber, serial, attribute) ==
    /\ subscriptions' = subscribe(subscriptions, subscriber, serial, attribute)
    /\ subscribed' = [sub |-> subscriber, serial |-> serial, attr |-> attribute,
                      prev |-> Registered(subscriptions, serial, attribute)]
    /\ UNCHANGED <<now, online, api_inverters, logintime, last_updated, measured,
                   discovery, utimers, dtimers, cyc, dsc, host, disp, returned,
                   lastlogin, called, discovered, trace>>

InitRegistry ==
    /\ InitService
    /\ subscriptions = <<>>

NextRegistry ==
    \E s \in TraceSubs, serial \in Serials, a \in Attrs : Subscribe(s, serial, a)

SpecRegistry == InitRegistry /\ [][NextRegistry]_vars

\* ================================================================= claims

\* ---- the update cycle (Spec)

\* C1 (as claimed): every async_update that returns has registered exactly one
\* future invocation of itself, whatever its outcome.
C1_ReschedulesOnce == returned.done => returned.nsched = 1

\* C2 (as claimed): whatever the status of the cycle, the timer it registers is
\* due 1 minute ahead.
C2_AlwaysOneMinute == (returned.done /\ returned.nsched > 0) => returned.delay = 1

\* C2 (amended): a cycle that registers its successor does so 1 minute ahead
\* when it ends NOT_OK and 2 minutes ahead when it ends OK.
C2_DelayFollowsStatus ==
    (returned.done /\ returned.nsched > 0) =>
        returned.delay = (IF returned.update = SCHEDULE_OK THEN 2 ELSE 1)

\* C2 witness: a cycle has returned OK with its successor registered 2 minutes ahead
C2_Witness == returned.done /\ returned.update = SCHEDULE_OK /\ returned.delay = 2

\* C8 (as claimed): all the notify calls of one update cycle carry one and the
\* same timestamp.
C8_OneStampPerCycle ==
    /\ \A i \in 1..MaxInFlight : Cardinality(cyc[i].stamps) <= 1
    /\ Cardinality(returned.stamps) <= 1

\* C8 (amended): all the notify calls made for one device's snapshot carry one
\* and the same timestamp, the instant captured when that device's fetch returned.
C8_OneStampPerSnapshot ==
    disp.serial # 0 =>
        /\ last_updated = disp.at
        /\ \A a \in Attrs : disp.sent[a] # <<>> => disp.sent[a][2] = disp.at

\* C8 witness: a cycle has just notified two attributes of one snapshot
C8_Witness ==
    /\ disp.serial # 0
    /\ Cardinality({a \in Attrs : disp.sent[a] # <<>>}) >= 2
    /\ \E i \in 1..MaxInFlight : cyc[i].pc # "idle"

\* C9 (as claimed): when an update cycle that ran its renewal test returns, a
\* session still in use was opened by a login at most 2 hours ago.
C9_SessionRenewed ==
    (returned.done /\ returned.nsched = 1 /\ online) =>
        (lastlogin # None /\ now - lastlogin <= HRS_BETWEEN_LOGIN)

\* C10 (as claimed): a cycle in which the fetch of some device failed returns
\* NOT_OK.
C10_FailedFetchNotOk ==
    (returned.done /\ returned.failed) => returned.update = SCHEDULE_NOK

\* ---- the subscriber contract (SpecSub)

\* the notify calls made on subscriber s, in order
SubTrace(s) == SelectSeq(trace, LAMBDA e : e.sub = s)

\* C3 (as claimed): whatever the notify calls made on a subscriber, do_update is
\* invoked at most once for any given timestamp.
C3_AtMostOncePerStamp ==
    \A s \in SubIds, t \in TraceStamps :
        Cardinality({j \in 1..Len(trace) :
                        trace[j].sub = s /\ trace[j].ts = t /\ trace[j].invoked}) <= 1

\* C3 (amended): do_update is not invoked again with a timestamp it has applied
\* until it has applied another one; in particular the second of two successive
\* notify calls with equal timestamps invokes do_update only after a refusal.
C3_NoRepeatOnceApplied ==
    \A s \in SubIds :
        LET st == SubTrace(s)
        IN  \A j \in 1..Len(st), k \in 1..Len(st) :
                (j < k /\ st[j].applied /\ st[k].invoked /\ st[j].ts = st[k].ts) =>
                    \E l \in (j + 1)..(k - 1) : st[l].applied

\* C3 witness: two successive notify calls with equal timestamps, the first
\* applied, the second dropped
C3_Witness ==
    \E s \in SubIds :
        LET st == SubTrace(s)
        IN  \E j \in 1..(Len(st) - 1) :
                st[j].applied /\ st[j + 1].ts = st[j].ts /\ ~st[j + 1].invoked

\* C4: a notify whose do_update returns true sets measured to the timestamp; one
\* whose do_update returns false leaves measured as it was, and a notify that
\* follows a refusal with the same timestamp invokes do_update again.
C4_TwoStepCommit ==
    [][Len(trace') = Len(trace) + 1 =>
          LET e == trace'[Len(trace')]
              before == SubTrace(e.sub)
          IN  /\ e.applied => measured'[e.sub] = e.ts
              /\ (e.invoked /\ ~e.applied) => measured'[e.sub] = measured[e.sub]
              /\ (/\ before # <<>>
                  /\ before[Len(before)].invoked
                  /\ ~before[Len(before)].applied
                  /\ before[Len(before)].ts = e.ts) => e.invoked]_vars

\* C4 witness: a refused timestamp was handed to do_update again and applied
C4_Witness ==
    \E s \in SubIds :
        LET st == SubTrace(s)
        IN  \E j \in 1..(Len(st) - 1) :
                /\ st[j].invoked /\ ~st[j].applied
                /\ st[j + 1].ts = st[j].ts /\ st[j + 1].applied
                /\ j + 1 = Len(st) /\ measured[s] = st[j].ts

\* C5: a notify whose timestamp equals the stored measured, both unset included,
\* does not invoke do_update and leaves measured unchanged.
C5_EqualStampDropped ==
    [][Len(trace') = Len(trace) + 1 =>
          LET e == trace'[Len(trace')]
          IN  e.ts = measured[e.sub] => (~e.invoked /\ measured' = measured)]_vars

\* C5 witness: a subscriber that never applied anything was notified with an
\* unset timestamp, and do_update was not invoked
C5_Witness ==
    /\ trace # <<>>
    /\ trace[1].ts = None
    /\ ~trace[1].invoked
    /\ measured[trace[1].sub] = None

\* ---- the energy-today correction (SpecDispatch)

Has(keys, a) == \E j \in 1..Len(keys) : keys[j] = a
Before(keys, a, b) == \E j \in 1..Len(keys), k \in 1..Len(keys) :
                          j < k /\ keys[j] = a /\ keys[k] = b
\* the dispatch d notified energy-today's subscriber, or would have
EnergyCase(d) ==
    /\ d.serial \in DOMAIN subscriptions
    /\ Has(d.keys, INVERTER_ENERGY_TODAY)
    /\ INVERTER_ENERGY_TODAY \in DOMAIN subscriptions[d.serial]
Raw(d) == <<RawValue(INVERTER_ENERGY_TODAY), d.at>>
Zero(d) == <<0, d.at>>

\* C6: before noon with state 'starting up': no state subscriber or its measured
\* unset -> raw value; measured at hour 0, minute < 15 -> 0, grace window or not;
\* else measured + 5 minutes > now -> energy-today is not notified, the other
\* attributes are; else -> raw value.
C6_StartingUp ==
    [][LET d == disp'
       IN  (EnergyCase(d) /\ d.state = 1 /\ Hour(d.at) < 12) =>
               LET sub == subscriptions[d.serial]
                   lus == IF INVERTER_STATE \notin DOMAIN sub THEN None
                          ELSE IF /\ Before(d.keys, INVERTER_STATE, INVERTER_ENERGY_TODAY)
                                  /\ INVERTER_STATE \in d.applied
                               THEN d.at
                               ELSE measured[sub[INVERTER_STATE]]
                   energy == d.sent[INVERTER_ENERGY_TODAY]
               IN  IF lus = None THEN energy = Raw(d)
                   ELSE IF Hour(lus) = 0 /\ Minute(lus) < 15 THEN energy = Zero(d)
                   ELSE IF lus + 5 > d.at
                        THEN /\ energy = <<>>
                             /\ \A a \in Attrs \ {INVERTER_ENERGY_TODAY} :
                                    (Has(d.keys, a) /\ a \in DOMAIN sub) =>
                                        d.sent[a] = <<Value(d, a), d.at>>
                        ELSE energy = Raw(d)]_vars

\* C6 witness: 'starting up' before noon, energy-today skipped inside the grace
\* window while another attribute of the snapshot was notified
C6_Witness ==
    /\ EnergyCase(disp) /\ disp.state = 1 /\ Hour(disp.at) < 12
    /\ disp.sent[INVERTER_ENERGY_TODAY] = <<>>
    /\ disp.sent[OTHER_ATTRIBUTE] # <<>>

\* C7: 'standby/off' before noon -> energy-today notified 0; 'running' at any
\* time, or any state from noon on -> notified the raw value; every other
\* attribute is notified its raw value.
C7_OutsideStartingUp ==
    (disp.serial # 0 /\ disp.serial \in DOMAIN subscriptions) =>
        /\ EnergyCase(disp) =>
              /\ (disp.state = 2 /\ Hour(disp.at) < 12) =>
                     disp.sent[INVERTER_ENERGY_TODAY] = Zero(disp)
              /\ (disp.state = 3 \/ Hour(disp.at) >= 12) =>
                     disp.sent[INVERTER_ENERGY_TODAY] = Raw(disp)
        /\ \A a \in Attrs \ {INVERTER_ENERGY_TODAY} :
              (Has(disp.keys, a) /\ a \in DOMAIN subscriptions[disp.serial]) =>
                  disp.sent[a] = <<Value(disp, a), disp.at>>

\* C7 witness: 'standby/off' from noon on, energy-today notified its raw value
C7_Witness ==
    /\ EnergyCase(disp) /\ disp.state = 2 /\ Hour(disp.at) >= 12
    /\ disp.sent[INVERTER_ENERGY_TODAY] = Raw(disp)

\* ---- concurrency of the update cycle (Spec)

\* the update invocations in flight
InFlight == {i \in 1..MaxInFlight : cyc[i].pc # "idle"}

\* C11 (as claimed): the host having armed the first update once, no two
\* invocations of async_update are ever in flight at the same time, however long
\* the suspended login, fetch and logout calls take.
C11_NoOverlap == Cardinality(InFlight) <= 1

\* ---- discovery (Spec)

\* C12: an async_discover whose aggregated result is empty registers exactly one
\* further async_discover 60 seconds ahead and does not invoke the callback; the
\* callback and the cookie the host supplied stay what they were, so the retry
\* reads the same ones.
C12_EmptyRetries ==
    [][/\ (discovered'.done /\ discovered'.caps = {}) =>
              /\ discovered'.nsched = 1
              /\ discovered'.delay * 60 = RETRY_DELAY_SECONDS
              /\ Len(dtimers') = 1
              /\ called' = <<>>
       /\ host.discovery => discovery' = discovery]_vars

\* C12 witness: an attempt made after 00:03 has finished empty and registered
\* its retry, with the host's callback and cookie still registered
C12_Witness ==
    /\ discovered.done /\ discovered.caps = {} /\ discovered.nsched = 1
    /\ now > 3
    /\ discovery.callback = "cb"

\* C13 (as claimed): an async_discover whose aggregated result is not empty
\* invokes the registered callback with the result and the cookie, registers no
\* retry and leaves callback and cookie registered, whatever pair the host
\* registered, an empty cookie included.
C13_CallbackInvoked ==
    (discovered.done /\ discovered.caps # {}) =>
        /\ called = <<[caps |-> discovered.caps, cookie |-> discovery.cookie]>>
        /\ discovered.nsched = 0
        /\ dtimers = <<>>
        /\ discovery.callback = "cb"

\* ---- the session (Spec)

\* C14 (as claimed): in every reachable state, the states in which a login, a
\* fetch or a logout is suspended included, self._logintime is set only while
\* the API reports is_online.
C14_StampOnlyOnline == logintime # None => online

\* a _logout() of invocation i ends in this step, by returning or by raising
LogoutEnds(i) ==
    /\ cyc[i].pc \in {"logout_fetch", "logout_renew"}
    /\ cyc'[i] # cyc[i]

\* invocation i ends in this step without returning: an exception left it
Dies(i) == cyc[i].pc # "idle" /\ cyc'[i].pc = "idle" /\ ~returned'.done

\* C15 (as claimed): once _logout() has ended, whether api.logout returned or
\* failed, self._logintime is unset, and the failure does not end the cycle.
C15_LogoutClears ==
    [][\A i \in 1..MaxInFlight :
           LogoutEnds(i) => (logintime' = None /\ ~Dies(i))]_vars

\* ---- the registry (SpecRegistry)

\* C16: after subscribe(subscriber, serial, attribute) the pair (serial,
\* attribute) maps to that subscriber, whoever was registered for it before;
\* every other pair maps to what it mapped to before, and no device is added
\* but serial; subscribing the same triple again changes nothing.
C16_Upsert ==
    [][subscribed'.serial # 0 =>
          LET c == subscribed'
          IN  /\ Registered(subscriptions', c.serial, c.attr) = c.sub
              /\ \A d \in Serials, a \in Attrs :
                     <<d, a>> # <<c.serial, c.attr>> =>
                         Registered(subscriptions', d, a) = Registered(subscriptions, d, a)
              /\ DOMAIN subscriptions' = DOMAIN subscriptions \cup {c.serial}
              /\ \A d \in DOMAIN subscriptions' :
                     DOMAIN subscriptions'[d] \subseteq Attrs
              /\ subscribe(subscriptions', c.sub, c.serial, c.attr) = subscriptions'
      ]_vars

\* C16 witness: a subscribe has replaced another subscriber of its pair while
\* that other subscriber stays registered for another attribute of the device
C16_Witness ==
    /\ subscribed.serial # 0
    /\ subscribed.prev \notin {"none", subscribed.sub}
    /\ Registered(subscriptions, subscribed.serial, subscribed.attr) = subscribed.sub
    /\ \E a \in Attrs \ {subscribed.attr} :
           Registered(subscriptions, subscribed.serial, a) = subscribed.prev

\* ---- the frame of a dispatch (Spec)

\* C17: update_devices notifies only for attributes the snapshot holds and that
\* have a subscriber under the snapshot's own serial, and only those subscribers'
\* measured can change; for a snapshot whose serial has no subscriptions nobody
\* is notified, the registry, every measured and the session stay as they were,
\* and the cycle goes on.
C17_DispatchFrame ==
    [][disp'.serial # 0 =>
          LET d == disp'
              own == IF d.serial \in DOMAIN subscriptions
                     THEN {a \in DOMAIN subscriptions[d.serial] : Has(d.keys, a)}
                     ELSE {}
          IN  /\ \A a \in Attrs : d.sent[a] # <<>> => a \in own
              /\ \A s \in SubIds :
                     measured'[s] # measured[s] =>
                         \E a \in own : subscriptions[d.serial][a] = s
              /\ subscriptions' = subscriptions
              /\ d.serial \notin DOMAIN subscriptions =>
                     /\ d.sent = NoneSent
                     /\ measured' = measured
                     /\ online' = online /\ logintime' = logintime
                     /\ \E i \in 1..MaxInFlight :
                            /\ cyc[i].pc = "fetch"
                            /\ cyc'[i] # cyc[i]
                            /\ ~Dies(i)
      ]_vars

\* C17 witness: a cycle has dispatched a snapshot of a device without
\* subscriptions while another device has subscribers, and goes on
C17_Witness ==
    /\ disp.serial # 0
    /\ disp.serial \notin DOMAIN subscriptions
    /\ subscriptions # <<>>
    /\ disp.keys # <<>>
    /\ returned.done

\* ---- the login timestamp (Spec)

\* an api.login call returns in this step
LoginReturns ==
    \/ \E i \in 1..MaxInFlight : cyc[i].pc = "login" /\ cyc'[i].pc # "login"
    \/ dsc.pc = "login" /\ dsc'.pc # "login"

\* C18 (as claimed): self._logintime takes a new instant only in a step in which
\* an api.login call returns successfully; a _login() on a session that is
\* already online, by async_update or by _do_discover, leaves it as it was.
C18_StampOnlyByLogin ==
    [][(logintime' # logintime /\ logintime' # None) =>
           (LoginReturns /\ online' /\ lastlogin' = now)]_vars

\* ---- the update timers (Spec)

\* the invocations in flight that have not yet called schedule_update
Unscheduled == {i \in InFlight : cyc[i].nsched = 0}

\* C19: one update having been armed, the pending update timers and the
\* invocations in flight that have not yet registered their successor number at
\* most 1 together.
C19_TimersBounded == Len(utimers) + Cardinality(Unscheduled) <= 1

\* C19 witness: an invocation that has registered its successor is still in
\* flight while that successor, started by the timer, has not registered its own
C19_Witness ==
    /\ Cardinality(InFlight) = 2
    /\ Cardinality(Unscheduled) = 1
    /\ utimers = <<>>

\* ---- order dependence inside one dispatch (SpecDispatch)

\* the state attribute was iterated before energy-today and its subscriber
\* applied the notification of dispatch d
StateAppliedFirst(d) ==
    /\ EnergyCase(d)
    /\ Before(d.keys, INVERTER_STATE, INVERTER_ENERGY_TODAY)
    /\ INVERTER_STATE \in d.applied

\* C20: before noon with state 'starting up', when the state attribute is
\* iterated before energy-today and its subscriber applied this dispatch's
\* notification, so that its measured is this dispatch's timestamp, energy-today
\* is notified 0 or not notified, never its raw value.
C20_NoRawAfterState ==
    (StateAppliedFirst(disp) /\ disp.state = 1 /\ Hour(disp.at) < 12) =>
        /\ measured[subscriptions[disp.serial][INVERTER_STATE]] = disp.at
        /\ disp.sent[INVERTER_ENERGY_TODAY] \in {<<>>, Zero(disp)}

\* C20 witness: such a dispatch after 00:15, in which energy-today was not
\* notified, its subscriber having applied a value of an earlier dispatch
C20_Witness ==
    /\ StateAppliedFirst(disp) /\ disp.state = 1 /\ Hour(disp.at) < 12
    /\ Minute(disp.at) >= 15
    /\ disp.sent[INVERTER_STATE] = <<1, disp.at>>
    /\ disp.sent[INVERTER_ENERGY_TODAY] = <<>>
    /\ measured["s2"] # None

====
